---- MODULE Spec2Model ----
(***************************************************************************)
(* Model of the editor control loop of src/src/editor.rs: the run loop,    *)
(* key processing, cursor navigation, viewport scrolling and the frame     *)
(* that refresh_screen sends to the terminal.                              *)
(*                                                                         *)
(* A Row is represented by its length (the editor only reads Row::len and  *)
(* Row::render), a Document by the sequence of its row lengths, and the    *)
(* terminal output of a frame by the sequence of terminal operations the   *)
(* code issues, in order.                                                  *)
(***************************************************************************)
EXTENDS Integers, Sequences, FiniteSets, TLC

\* ------------------------------------------------------------------ bounds
MaxRows == 3        \* documents have 0..MaxRows rows
MaxRowLen == 2      \* a row is empty or has MaxRowLen characters
MaxDim == 2         \* the terminal reports width and height in 0..MaxDim
MaxCoord == 4       \* coordinates drawn for the scroll-only specification
DrawSlack == 2      \* the frame-only specification takes row lengths and
                    \* offsets within DrawSlack of 0 and of PAPER_WIDTH

\* ------------------------------------------------------- program constants
PAPER_WIDTH == 80
NUM_WIDTH == 5
STATUS_BG_COLOR == 0
PAPER_BG_COLOR == 20
\* length of VERSION, the crate version string (three one-digit components)
VERSION_LEN == 5
\* usize::MAX, cut to the integer range of the model checker
USIZE_MAX == 2147483647

VARIABLES
    should_quit,        \* Editor.should_quit
    cursor_position,    \* Editor.cursor_position, [x, y]
    offset,             \* Editor.offset, [x, y]
    document,           \* Editor.document: sequence of row lengths
    terminal,           \* Editor.terminal: the size it reports, [width, height]
    pressed_key,        \* the key last returned by Terminal::read_key
    output,             \* terminal operations issued by the last step of run
    pc                  \* position of Editor::run

vars == <<should_quit, cursor_position, offset, document, terminal,
          pressed_key, output, pc>>

\* ------------------------------------------------------------- data types
Position(px, py) == [x |-> px, y |-> py]

Size(w, h) == [width |-> w, height |-> h]

Sizes == {Size(w, h) : w \in 0..MaxDim, h \in 0..MaxDim}

\* the terminal of the scenarios "terminal width=80" and "terminal height=24"
ScenarioSize == Size(80, 24)

\* the cursor of the scenario "cursor.x=100"
ScenarioCursor == Position(100, 0)

NavigationKeys ==
    {"Up", "Down", "Left", "Right", "PageUp", "PageDown", "End", "Home"}

\* keys that process_keypress matches with the `_` arm
OtherKeys == {"Char_c", "Ctrl_q"}

Keys == NavigationKeys \cup {"Ctrl_c"} \cup OtherKeys

RECURSIVE SeqsUpTo(_, _)
SeqsUpTo(S, n) ==
    IF n = 0 THEN {<<>>}
    ELSE LET shorter == SeqsUpTo(S, n - 1)
         IN  shorter \cup {Append(s, e) : s \in {t \in shorter : Len(t) = n - 1}, e \in S}

\* the document of the scenario "rows of lengths [10, 0, 5]"
ScenarioDocument == <<10, 0, 5>>

RowLens == {0, MaxRowLen}

Documents == SeqsUpTo(RowLens, MaxRows) \cup {ScenarioDocument}

Min(a, b) == IF a < b THEN a ELSE b

Max(a, b) == IF a > b THEN a ELSE b

\* ----------------------------------------------------- usize arithmetic
saturating_sub(a, b) == IF a > b THEN a - b ELSE 0

saturating_add(a, b) == IF a > USIZE_MAX - b THEN USIZE_MAX ELSE a + b

\* ------------------------------------------------- Document collaborator
document_len(doc) == Len(doc)

document_is_empty(doc) == Len(doc) = 0

\* Document::row(index) is Some exactly for the indices below len()
row_is_some(doc, index) == index < Len(doc)

\* self.document.row(y).map_or(0, Row::len)
row_len_or_0(doc, index) == IF row_is_some(doc, index) THEN doc[index + 1] ELSE 0

\* document.len().saturating_sub(1)
last_row(doc) == saturating_sub(document_len(doc), 1)

\* ------------------------------------------------------ Editor::move_cursor
\* Each step operator returns the pair Position(x, y) before the final clamp.

\* mutant: Up also returns to the first column
move_up_reset_x(x, y) == Position(0, saturating_sub(y, 1))

\* Key::Up => y = y.saturating_sub(1)
move_up(x, y) == Position(x, saturating_sub(y, 1))

\* mutant: `<=` for `<`, Down steps past the last row
move_down_past_end(x, y, height) ==
    IF y <= height THEN Position(x, saturating_add(y, 1)) ELSE Position(x, y)

\* Key::Down => if y < height { y = y.saturating_add(1) }
move_down(x, y, height) ==
    IF y < height THEN Position(x, saturating_add(y, 1)) ELSE Position(x, y)

\* mutant: wrapping to the previous row lands on its first column
move_left_to_start(x, y, doc) ==
    IF x > 0 THEN Position(x - 1, y)
    ELSE IF y > 0 THEN Position(0, y - 1)
         ELSE Position(x, y)

\* Key::Left
move_left(x, y, doc) ==
    IF x > 0 THEN Position(x - 1, y)
    ELSE IF y > 0
         THEN IF row_is_some(doc, y - 1)
              THEN Position(doc[(y - 1) + 1], y - 1)
              ELSE Position(0, y - 1)
         ELSE Position(x, y)

\* mutant: wrapping to the next row keeps the column
move_right_keep_x(x, y, width, height) ==
    IF x < width THEN Position(x + 1, y)
    ELSE IF y < height THEN Position(x, y + 1)
         ELSE Position(x, y)

\* Key::Right
move_right(x, y, width, height) ==
    IF x < width THEN Position(x + 1, y)
    ELSE IF y < height THEN Position(0, y + 1)
         ELSE Position(x, y)

\* mutant: PageUp does nothing unless y > terminal_height
page_up_dead_zone(x, y, terminal_height) ==
    Position(x, IF y > terminal_height THEN y - terminal_height ELSE y)

\* Key::PageUp
page_up(x, y, terminal_height) ==
    Position(x, IF y > terminal_height THEN y - terminal_height ELSE 0)

\* Key::PageDown
page_down(x, y, terminal_height, height) ==
    Position(x, IF saturating_add(y, terminal_height) < height
                THEN y + terminal_height
                ELSE height)

\* Key::Home => x = 0
move_home(x, y) == Position(0, y)

\* mutant: End stops on the last character instead of after it
move_end_on_last(x, y, width) == Position(saturating_sub(width, 1), y)

\* Key::End => x = width
move_end(x, y, width) == Position(width, y)

\* mutant: the clamp is left out
clamp_x_unclamped(p, doc) == p

\* width = row(y).map_or(0, Row::len); if x > width { x = width; }
clamp_x(p, doc) ==
    LET width == row_len_or_0(doc, p.y)
    IN  IF p.x > width THEN Position(width, p.y) ELSE p

move_cursor(cur, key, doc, size) ==
    LET terminal_height == size.height
        y == cur.y
        x == cur.x
        height == saturating_sub(document_len(doc), 1)
        width == row_len_or_0(doc, y)
        stepped ==
            CASE key = "Up" -> move_up(x, y)
              [] key = "Down" -> move_down(x, y, height)
              [] key = "Left" -> move_left(x, y, doc)
              [] key = "Right" -> move_right(x, y, width, height)
              [] key = "PageUp" -> page_up(x, y, terminal_height)
              [] key = "PageDown" -> page_down(x, y, terminal_height, height)
              [] key = "Home" -> move_home(x, y)
              [] key = "End" -> move_end(x, y, width)
              [] OTHER -> Position(x, y)
    IN  clamp_x(stepped, doc)

\* ----------------------------------------------------------- Editor::scroll
\* mutant: `>` for `>=`, the cursor may sit one line below the viewport
scroll_y_late(y, offset_y, height) ==
    IF y < offset_y THEN y
    ELSE IF y > saturating_add(offset_y, height)
         THEN saturating_add(saturating_sub(y, height), 1)
         ELSE offset_y

\* the y axis against the terminal height
scroll_y(y, offset_y, height) ==
    IF y < offset_y THEN y
    ELSE IF y >= saturating_add(offset_y, height)
         THEN saturating_add(saturating_sub(y, height), 1)
         ELSE offset_y

\* mutant: scrolls forward already when the cursor is on the last column
scroll_x_early(x, offset_x, width) ==
    IF x < offset_x THEN x
    ELSE IF saturating_add(x, 1) >= saturating_add(offset_x, width)
         THEN saturating_add(saturating_sub(x, width), 1)
         ELSE offset_x

\* mutant: the `+ 1` is left out, the cursor ends one column past the viewport
scroll_x_short(x, offset_x, width) ==
    IF x < offset_x THEN x
    ELSE IF x >= saturating_add(offset_x, width)
         THEN saturating_sub(x, width)
         ELSE offset_x

\* the x axis against the terminal width
scroll_x(x, offset_x, width) ==
    IF x < offset_x THEN x
    ELSE IF x >= saturating_add(offset_x, width)
         THEN saturating_add(saturating_sub(x, width), 1)
         ELSE offset_x

scroll(cur, off, size) ==
    Position(scroll_x(cur.x, off.x, size.width),
             scroll_y(cur.y, off.y, size.height))

\* ------------------------------------------------- Editor::process_keypress
\* mutant: Ctrl-q quits too
quit_after_key_ctrl_q(key, quit) ==
    IF key \in {"Ctrl_c", "Ctrl_q"} THEN TRUE ELSE quit

\* the value of should_quit after the match on pressed_key
quit_after_key(key, quit) == IF key = "Ctrl_c" THEN TRUE ELSE quit

\* the cursor after the match on pressed_key
cursor_after_key(cur, key, doc, size) ==
    IF key \in NavigationKeys THEN move_cursor(cur, key, doc, size) ELSE cur

\* --------------------------------------------------------- terminal output
\* One terminal operation: its name and up to three arguments.
Op(name, a, b, c) == [op |-> name, a |-> a, b |-> b, c |-> c]

cursor_hide == Op("cursor_hide", 0, 0, 0)
cursor_show == Op("cursor_show", 0, 0, 0)
cursor_goto(p) == Op("cursor_position", p.x, p.y, 0)
clear_screen == Op("clear_screen", 0, 0, 0)
clear_current_line == Op("clear_current_line", 0, 0, 0)
set_bg_color(color) == Op("set_bg_color", color, 0, 0)
reset_bg_color == Op("reset_bg_color", 0, 0, 0)
flush == Op("flush", 0, 0, 0)
print_exit_message == Op("print_exit_message", 0, 0, 0)
print_tilde == Op("print_tilde", 0, 0, 0)
print_newline == Op("print_newline", 0, 0, 0)
\* n copies of one character
print_spaces(n) == Op("print_spaces", n, 0, 0)
print_bars(n) == Op("print_bars", n, 0, 0)
\* the characters of document row r at columns from..to-1
print_row_text(r, from, to) == Op("print_row_text", r, from, to)
\* the welcome line: '~', spacer spaces, then the message cut to `printed`
\* characters in all
print_welcome(spacer, printed) == Op("print_welcome", spacer, printed, 0)

\* Row::render(start, end): the sub-range [start, end) clipped to the row
row_render(r, len, start, end) ==
    LET e == Min(end, len)
        s == Min(start, e)
    IN  print_row_text(r, s, e)

\* Editor::draw_welcome_message
draw_welcome_message(size) ==
    LET width == size.width
        len == 9 + VERSION_LEN
        padding == saturating_sub(width, len) \div 2
        spacer == saturating_sub(padding, 1)
    IN  <<print_welcome(spacer, Min(width, 1 + spacer + len)), print_newline>>

\* mutant: the padding is always PAPER_WIDTH - len, also for a row that ends
\* left of the viewport
draw_row_pad_by_len(r, len, off, size) ==
    LET width == size.width
        start == off.x
        end == off.x + width
    IN  IF start < PAPER_WIDTH
        THEN << set_bg_color(PAPER_BG_COLOR),
                row_render(r, len, start, PAPER_WIDTH),
                print_spaces(saturating_sub(PAPER_WIDTH, len)),
                reset_bg_color,
                row_render(r, len, PAPER_WIDTH, end),
                print_newline >>
        ELSE << row_render(r, len, start, end), print_newline >>

\* Editor::draw_row for document row r of length len
draw_row(r, len, off, size) ==
    LET width == size.width
        start == off.x
        end == off.x + width
    IN  IF start < PAPER_WIDTH
        THEN << set_bg_color(PAPER_BG_COLOR),
                row_render(r, len, start, PAPER_WIDTH),
                IF start > len
                THEN print_spaces(saturating_sub(PAPER_WIDTH, start))
                ELSE print_spaces(saturating_sub(PAPER_WIDTH, len)),
                reset_bg_color,
                row_render(r, len, PAPER_WIDTH, end),
                print_newline >>
        ELSE << row_render(r, len, start, end), print_newline >>

\* mutant: the banner is placed a third of the way down
draw_terminal_row_third(terminal_row, doc, off, size) ==
    LET height == size.height
        r == terminal_row + off.y
    IN  <<clear_current_line>> \o
        (IF row_is_some(doc, r)
         THEN draw_row(r, doc[r + 1], off, size)
         ELSE IF document_is_empty(doc) /\ terminal_row = height \div 3
              THEN draw_welcome_message(size)
              ELSE <<print_tilde, print_newline>>)

\* the body of the loop of draw_rows for one terminal row
draw_terminal_row(terminal_row, doc, off, size) ==
    LET height == size.height
        r == terminal_row + off.y
    IN  <<clear_current_line>> \o
        (IF row_is_some(doc, r)
         THEN draw_row(r, doc[r + 1], off, size)
         ELSE IF document_is_empty(doc) /\ terminal_row = height \div 2
              THEN draw_welcome_message(size)
              ELSE <<print_tilde, print_newline>>)

\* Editor::draw_rows, terminal rows from..height-1
RECURSIVE draw_rows_from(_, _, _, _)
draw_rows_from(from, doc, off, size) ==
    IF from >= size.height THEN <<>>
    ELSE draw_terminal_row(from, doc, off, size)
         \o draw_rows_from(from + 1, doc, off, size)

draw_rows(doc, off, size) == draw_rows_from(0, doc, off, size)

\* Editor::draw_status_bar
draw_status_bar(size) ==
    <<set_bg_color(STATUS_BG_COLOR), print_bars(size.width), reset_bg_color>>

\* Editor::refresh_screen: the operations it issues, in order
refresh_screen(quit, cur, off, doc, size) ==
    <<cursor_hide, cursor_goto(Position(0, 0))>> \o
    (IF quit
     THEN <<clear_screen, print_exit_message>>
     ELSE draw_rows(doc, off, size) \o draw_status_bar(size) \o
          <<cursor_goto(Position(saturating_sub(cur.x, off.x),
                                 saturating_sub(cur.y, off.y)))>>) \o
    <<cursor_show, flush>>

\* mutant: die panics without clearing the screen
die_without_clear == <<>>

\* die: Terminal::clear_screen(), then panic
die == <<clear_screen>>

\* mutant: the loop never breaks
after_refresh_no_break(quit) == "process_keypress"

\* Editor::run: where the loop goes after a refresh_screen that returned Ok
after_refresh(quit) == IF quit THEN "done" ELSE "process_keypress"

\* -------------------------------------------------------------------- Init
\* Editor::default: the document is the file named on the command line or
\* the empty one; the terminal reports some size.
Init ==
    /\ should_quit = FALSE
    /\ cursor_position = Position(0, 0)
    /\ offset = Position(0, 0)
    /\ document \in Documents
    /\ terminal \in Sizes
    /\ pressed_key = "none"
    /\ output = <<>>
    /\ pc = "refresh_screen"

\* ----------------------------------------------------------------- actions
\* run spends its time blocked in Terminal::read_key, so a resize of the
\* terminal happens there: the size the terminal reports from then on is the
\* `size` of the key event, which `terminal` keeps until the next key event.

\* run: refresh_screen returns Ok, then `if self.should_quit { break; }`
RefreshScreen ==
    /\ pc = "refresh_screen"
    /\ output' = refresh_screen(should_quit, cursor_position, offset,
                                document, terminal)
    /\ pc' = after_refresh(should_quit)
    /\ UNCHANGED <<should_quit, cursor_position, offset, document, terminal,
                   pressed_key>>

\* run: refresh_screen returns Err (Terminal::flush failed), die
RefreshScreenFails ==
    /\ pc = "refresh_screen"
    /\ output' = refresh_screen(should_quit, cursor_position, offset,
                                document, terminal) \o die
    /\ pc' = "died"
    /\ UNCHANGED <<should_quit, cursor_position, offset, document, terminal,
                   pressed_key>>

\* mutant: scroll runs before the navigation step, on the old cursor
ProcessKeypress_scroll_first(key, size) ==
    /\ pc = "process_keypress"
    /\ terminal' = size
    /\ pressed_key' = key
    /\ should_quit' = quit_after_key(key, should_quit)
    /\ offset' = scroll(cursor_position, offset, size)
    /\ cursor_position' = cursor_after_key(cursor_position, key, document, size)
    /\ output' = <<>>
    /\ pc' = "refresh_screen"
    /\ UNCHANGED document

\* process_keypress with read_key returning Ok(key)
ProcessKeypress(key, size) ==
    /\ pc = "process_keypress"
    /\ terminal' = size
    /\ pressed_key' = key
    /\ should_quit' = quit_after_key(key, should_quit)
    /\ cursor_position' = cursor_after_key(cursor_position, key, document, size)
    /\ offset' = scroll(cursor_position', offset, size)
    /\ output' = <<>>
    /\ pc' = "refresh_screen"
    /\ UNCHANGED document

\* process_keypress with read_key returning Err: `?` returns early, run dies
ReadKeyFails ==
    /\ pc = "process_keypress"
    /\ output' = die
    /\ pc' = "died"
    /\ UNCHANGED <<should_quit, cursor_position, offset, document, terminal,
                   pressed_key>>

Next ==
    \/ RefreshScreen
    \/ RefreshScreenFails
    \/ \E key \in Keys, size \in Sizes : ProcessKeypress(key, size)
    \/ ReadKeyFails

Spec == Init /\ [][Next]_vars

\* ------------------------------------------- scroll as a function of its inputs
\* Editor::scroll applied twice to any cursor, offset and terminal size. The
\* document is one that holds the cursor.
InitScroll ==
    /\ should_quit = FALSE
    /\ cursor_position \in
           {Position(cx, cy) : cx \in 0..MaxCoord, cy \in 0..MaxCoord}
           \cup {ScenarioCursor}
    /\ offset \in {Position(ox, oy) : ox \in 0..MaxCoord, oy \in 0..MaxCoord}
    /\ document = [i \in 1..(cursor_position.y + 1) |-> cursor_position.x]
    /\ terminal \in Sizes \cup {ScenarioSize}
    /\ pressed_key = "none"
    /\ output = <<>>
    /\ pc = "scroll"

ScrollFirst ==
    /\ pc = "scroll"
    /\ offset' = scroll(cursor_position, offset, terminal)
    /\ pc' = "scroll_again"
    /\ UNCHANGED <<should_quit, cursor_position, document, terminal,
                   pressed_key, output>>

ScrollAgain ==
    /\ pc = "scroll_again"
    /\ offset' = scroll(cursor_position, offset, terminal)
    /\ pc' = "scrolled"
    /\ UNCHANGED <<should_quit, cursor_position, document, terminal,
                   pressed_key, output>>

NextScroll == ScrollFirst \/ ScrollAgain

SpecScroll == InitScroll /\ [][NextScroll]_vars

\* ------------------------------------ a frame as a function of its inputs
\* Editor::refresh_screen applied once to a running editor: any document of
\* up to two rows whose first row is short or about as long as the paper
\* band, the cursor at the end of one of its rows, any offset that scroll
\* can leave for that cursor (at most one past it on each axis), and any
\* terminal size, the scenario size included.
Near(n) == {k \in (n - DrawSlack)..(n + DrawSlack) : k >= 0}

DrawColumns == Near(0) \cup Near(PAPER_WIDTH)

DrawDocuments ==
    {<<>>} \cup {<<a>> : a \in DrawColumns}
           \cup {<<a, b>> : a \in DrawColumns, b \in RowLens}

DrawSizes == Sizes \cup {ScenarioSize}

InitDraw ==
    /\ should_quit = FALSE
    /\ document \in DrawDocuments
    /\ cursor_position \in
           {Position(row_len_or_0(document, cy), cy) :
                cy \in 0..last_row(document)}
    /\ offset \in {Position(ox, oy) : ox \in DrawColumns, oy \in 0..2}
    /\ offset.x <= cursor_position.x + 1
    /\ offset.y <= cursor_position.y + 1
    /\ terminal \in DrawSizes
    /\ pressed_key = "none"
    /\ output = <<>>
    /\ pc = "draw"

DrawFrame ==
    /\ pc = "draw"
    /\ output' = refresh_screen(should_quit, cursor_position, offset,
                                document, terminal)
    /\ pc' = "drawn"
    /\ UNCHANGED <<should_quit, cursor_position, offset, document, terminal,
                   pressed_key>>

NextDraw == DrawFrame

SpecDraw == InitDraw /\ [][NextDraw]_vars

\* ------------------------------------------------------------ shared terms
\* the state right after a key event: process_keypress has returned Ok and
\* the next refresh_screen has not run yet
KeyProcessed == pc = "refresh_screen" /\ pressed_key # "none"

\* the step of a key event
KeyStep == pc = "process_keypress" /\ pc' = "refresh_screen"

\* c lies in [o, o + dim)
Visible(c, o, dim) == o <= c /\ c < o + dim

\* ---------------------------------------------------------------------- C1
\* C1: in every reachable state cursor.x <= length of the row at cursor.y (0
\* when the row is absent) and cursor.y <= document.len() - 1 (0 when the
\* document is empty); on an empty document the cursor is (0,0).
C1_CursorInDocument ==
    /\ cursor_position.x <= row_len_or_0(document, cursor_position.y)
    /\ cursor_position.y <= last_row(document)
    /\ document_is_empty(document) => cursor_position = Position(0, 0)

\* a vertical move has landed on an empty row below a non-empty one
C1_Witness ==
    /\ pressed_key = "Down"
    /\ pc = "refresh_screen"
    /\ cursor_position = Position(0, 1)
    /\ document = <<MaxRowLen, 0>>

\* ---------------------------------------------------------------------- C2
\* C2 (as claimed): after every processed key event, with (width, height)
\* the terminal size read during the event, offset.x <= cursor.x <
\* offset.x + width and offset.y <= cursor.y < offset.y + height.
C2_Original ==
    KeyProcessed =>
        /\ Visible(cursor_position.x, offset.x, terminal.width)
        /\ Visible(cursor_position.y, offset.y, terminal.height)

\* C2 (amended): after every processed key event the cursor lies inside the
\* viewport on every axis whose terminal dimension is at least 1.
C2_CursorInViewport ==
    KeyProcessed =>
        /\ terminal.width >= 1
            => Visible(cursor_position.x, offset.x, terminal.width)
        /\ terminal.height >= 1
            => Visible(cursor_position.y, offset.y, terminal.height)

\* a key event that scrolled forward on both axes
C2_Witness ==
    /\ KeyProcessed
    /\ terminal.width >= 1 /\ terminal.height >= 1
    /\ offset.x > 0 /\ offset.y > 0
    /\ cursor_position.x = offset.x + terminal.width - 1
    /\ cursor_position.y = offset.y + terminal.height - 1

\* ---------------------------------------------------------------------- C3
\* C3: scroll is idempotent: right after a key event, which ends with
\* scroll, applying scroll again with the cursor and the terminal size
\* unchanged leaves the offset as it is.
C3_ScrollIdempotent ==
    KeyProcessed => scroll(cursor_position, offset, terminal) = offset

\* ---------------------------------------------------------------------- C4
\* C4 (SpecScroll): an axis whose cursor coordinate is inside its visible
\* range [offset, offset + dimension) is left unchanged by scroll, whatever
\* happens on the other axis.
C4_VisibleAxisUnchanged ==
    [][ /\ Visible(cursor_position.x, offset.x, terminal.width)
            => offset'.x = offset.x
        /\ Visible(cursor_position.y, offset.y, terminal.height)
            => offset'.y = offset.y ]_vars

\* scroll has run on a cursor that is visible on both axes of a viewport
\* scrolled away from the origin
C4_Witness ==
    /\ pc = "scroll_again"
    /\ offset.x > 0 /\ offset.y > 0
    /\ cursor_position = Position(offset.x + 1, offset.y)
    /\ terminal = Size(2, 1)

\* ---------------------------------------------------------------------- C5
\* C5: Left pressed at (0, y) with y > 0 moves the cursor to
\* (length(row(y-1)), y-1); Right pressed at (length(row(y)), y) with
\* y < document.len() - 1 moves the cursor to (0, y+1).
C5_LineWrap ==
    [][ KeyStep =>
        /\ ( /\ pressed_key' = "Left"
             /\ cursor_position.x = 0
             /\ cursor_position.y > 0 )
            => cursor_position' =
                   Position(row_len_or_0(document, cursor_position.y - 1),
                            cursor_position.y - 1)
        /\ ( /\ pressed_key' = "Right"
             /\ cursor_position.x = row_len_or_0(document, cursor_position.y)
             /\ cursor_position.y < last_row(document) )
            => cursor_position' = Position(0, cursor_position.y + 1) ]_vars

\* the scenario: rows of lengths [10, 0, 5], Right has been pressed at
\* (10,0), the only position from which Right reaches (0,1)
C5_Witness ==
    /\ KeyProcessed
    /\ document = ScenarioDocument
    /\ pressed_key = "Right"
    /\ cursor_position = Position(0, 1)

\* ---------------------------------------------------------------------- C6
\* C6: in every reachable state, if Right changes the cursor then Left
\* pressed next restores it, and if Left changes the cursor then Right
\* pressed next restores it.
C6_LeftRightInverse ==
    LET right == cursor_after_key(cursor_position, "Right", document, terminal)
        left == cursor_after_key(cursor_position, "Left", document, terminal)
    IN  /\ right # cursor_position
            => cursor_after_key(right, "Left", document, terminal) = cursor_position
        /\ left # cursor_position
            => cursor_after_key(left, "Right", document, terminal) = cursor_position

\* Left has wrapped to the end of a non-empty row, from where Right wraps
\* back
C6_Witness ==
    /\ KeyProcessed
    /\ pressed_key = "Left"
    /\ cursor_position.y < last_row(document)
    /\ cursor_position.x = MaxRowLen
    /\ row_len_or_0(document, cursor_position.y) = MaxRowLen

\* ---------------------------------------------------------------------- C7
\* C7: Home sets cursor.x to 0, End sets cursor.x to the length of the row
\* at cursor.y (0 if the row is absent); both leave cursor.y unchanged.
C7_HomeEnd ==
    [][ KeyStep =>
        /\ pressed_key' = "Home"
            => cursor_position' = Position(0, cursor_position.y)
        /\ pressed_key' = "End"
            => cursor_position' =
                   Position(row_len_or_0(document, cursor_position.y),
                            cursor_position.y) ]_vars

\* End has been pressed on a non-empty row below the first
C7_Witness ==
    /\ KeyProcessed
    /\ pressed_key = "End"
    /\ cursor_position = Position(MaxRowLen, 1)

\* ---------------------------------------------------------------------- C8
\* C8: should_quit is false initially, becomes true only when the key read
\* is Ctrl-c, is left unchanged by every other key, and once true is never
\* set back to false.
C8_QuitOnlyOnCtrlC ==
    /\ should_quit = FALSE
    /\ [][ /\ (KeyStep /\ pressed_key' = "Ctrl_c") => should_quit'
           /\ (KeyStep /\ pressed_key' # "Ctrl_c") => should_quit' = should_quit
           /\ should_quit' # should_quit => (KeyStep /\ pressed_key' = "Ctrl_c")
           /\ should_quit => should_quit' ]_vars

\* Ctrl-c has been read after the cursor was moved
C8_Witness ==
    /\ should_quit
    /\ pressed_key = "Ctrl_c"
    /\ cursor_position # Position(0, 0)

\* ---------------------------------------------------------------------- C9
\* the names of the operations in a sequence of terminal operations
OpNames(out) == {out[i].op : i \in 1..Len(out)}

\* operations that draw document rows, placeholders or the status bar
DrawingOps ==
    {"clear_current_line", "print_row_text", "print_spaces", "print_tilde",
     "print_welcome", "print_bars", "set_bg_color", "reset_bg_color"}

\* the frame of the QUIT state: screen cleared, exit message printed, no
\* rows and no status bar
ExitFrame(out) ==
    /\ Len(out) >= 6
    /\ SubSeq(out, 1, 6) = <<cursor_hide, cursor_goto(Position(0, 0)),
                             clear_screen, print_exit_message,
                             cursor_show, flush>>
    /\ OpNames(out) \cap DrawingOps = {}

\* C9: once the quit key is read the only step left is one refresh_screen,
\* which clears the screen and prints the exit message without drawing rows
\* or the status bar, after which run has stopped (or died on an I/O error)
\* and no key is read; run stops no other way: it is done only after that
\* frame, and otherwise ends only by dying.
C9_QuitIsTerminal ==
    [][ /\ should_quit =>
            /\ pc = "refresh_screen"
            /\ pc' \in {"done", "died"}
            /\ ExitFrame(output')
            /\ pressed_key' = pressed_key
        /\ pc \notin {"done", "died"}
        /\ pc' = "done" => (should_quit /\ pc = "refresh_screen")
        /\ (~should_quit /\ pc' # "died")
            => pc' \in {"refresh_screen", "process_keypress"} ]_vars

\* run has stopped after the exit frame
C9_Witness ==
    /\ pc = "done"
    /\ should_quit
    /\ ExitFrame(output)
    /\ Len(output) = 6

\* --------------------------------------------------------------------- C10
\* C10: with h the terminal height of the key event and last =
\* document.len() - 1 (0 if empty), PageUp sets cursor.y to max(y - h, 0)
\* and PageDown sets cursor.y to min(y + h, last); neither moves the cursor
\* the other way or outside [0, last].
C10_PageMoves ==
    [][ KeyStep =>
        LET y == cursor_position.y
            h == terminal'.height
            last == last_row(document)
        IN  /\ pressed_key' = "PageUp"
                => /\ cursor_position'.y = Max(y - h, 0)
                   /\ cursor_position'.y <= y
            /\ pressed_key' = "PageDown"
                => /\ cursor_position'.y = Min(y + h, last)
                   /\ cursor_position'.y >= y
            /\ pressed_key' \in {"PageUp", "PageDown"}
                => (0 <= cursor_position'.y /\ cursor_position'.y <= last) ]_vars

\* PageDown has moved the cursor by a terminal height of 1 from row 0 to
\* row 1 of a three-row document
C10_Witness ==
    /\ KeyProcessed
    /\ pressed_key = "PageDown"
    /\ terminal.height = 1
    /\ cursor_position.y = 1
    /\ Len(document) = 3


\* --------------------------------------------------------------------- C11
\* C11: in every reachable state a move against a boundary leaves the
\* cursor where it is: Up on row 0, Down on the last row, Left at (0,0) and
\* Right at the end of the last row.
C11_BoundaryMovesAreNoOps ==
    LET cur == cursor_position
        after(key) == cursor_after_key(cur, key, document, terminal)
    IN  /\ cur.y = 0 => after("Up") = cur
        /\ cur.y = last_row(document) => after("Down") = cur
        /\ cur = Position(0, 0) => after("Left") = cur
        /\ ( /\ cur.y = last_row(document)
             /\ cur.x = row_len_or_0(document, cur.y) )
            => after("Right") = cur

\* Down has been pressed on the only row of a one-row document, with the
\* cursor at its end: the cursor can only have been there before
C11_Witness ==
    /\ KeyProcessed
    /\ pressed_key = "Down"
    /\ document = <<MaxRowLen>>
    /\ cursor_position = Position(MaxRowLen, 0)


\* --------------------------------------------------------------------- C12
\* C12 (SpecScroll): per axis, with c the cursor coordinate, o the offset
\* and dim the terminal dimension: if c < o the new offset is c; if
\* c >= o + dim the new offset is c - dim + 1, which puts the cursor on the
\* last visible line or column, c = new offset + dim - 1.
C12_ScrollExactlyFarEnough ==
    [][ LET x == cursor_position.x
            y == cursor_position.y
            width == terminal.width
            height == terminal.height
        IN  /\ x < offset.x => offset'.x = x
            /\ x >= offset.x + width
                => (offset'.x = x - width + 1 /\ x = offset'.x + width - 1)
            /\ y < offset.y => offset'.y = y
            /\ y >= offset.y + height
                => (offset'.y = y - height + 1 /\ y = offset'.y + height - 1)
      ]_vars

\* the scenario: width 80, cursor.x = 100, scroll has set offset.x to 21
C12_Witness ==
    /\ pc = "scroll_again"
    /\ cursor_position = ScenarioCursor
    /\ terminal = ScenarioSize
    /\ offset.x = 21


\* ----------------------------------------------------- reading a frame
\* the indices of the operations of `out` named `name`
OpsNamed(out, name) == {i \in 1..Len(out) : out[i].op = name}

\* the screen row (0-based) that operation i of a frame belongs to: draw_rows
\* starts every screen row with clear_current_line
ScreenRowOf(out, i) ==
    Cardinality({j \in OpsNamed(out, "clear_current_line") : j <= i}) - 1

\* the screen rows on which a frame has an operation named `name`
ScreenRowsWith(out, name) ==
    {ScreenRowOf(out, i) : i \in OpsNamed(out, name)}

\* --------------------------------------------------------------------- C13
\* C13 (as claimed, SpecDraw): with an empty document and terminal height
\* h, a RUNNING frame draws the welcome banner on exactly one screen row,
\* row h/2, and a bare '~' on every other screen row; with a non-empty
\* document no row carries the banner.
C13_Original ==
    pc = "drawn" =>
        LET h == terminal.height
        IN  IF document_is_empty(document)
            THEN /\ Cardinality(OpsNamed(output, "print_welcome")) = 1
                 /\ ScreenRowsWith(output, "print_welcome") = {h \div 2}
                 /\ ScreenRowsWith(output, "print_tilde")
                        = (0..(h - 1)) \ {h \div 2}
                 /\ Cardinality(OpsNamed(output, "print_tilde")) = h - 1
            ELSE OpsNamed(output, "print_welcome") = {}

\* C13 (amended): the same for every terminal height h >= 1; with h = 0 no
\* screen row is drawn, so the frame has neither banner nor placeholder.
C13_WelcomeBannerRow ==
    pc = "drawn" =>
        LET h == terminal.height
        IN  IF document_is_empty(document)
            THEN IF h >= 1
                 THEN /\ Cardinality(OpsNamed(output, "print_welcome")) = 1
                      /\ ScreenRowsWith(output, "print_welcome") = {h \div 2}
                      /\ ScreenRowsWith(output, "print_tilde")
                             = (0..(h - 1)) \ {h \div 2}
                      /\ Cardinality(OpsNamed(output, "print_tilde")) = h - 1
                 ELSE /\ OpsNamed(output, "print_welcome") = {}
                      /\ OpsNamed(output, "print_tilde") = {}
            ELSE OpsNamed(output, "print_welcome") = {}

\* the scenario: empty document, terminal height 24, banner on screen row 12
C13_Witness ==
    /\ pc = "drawn"
    /\ document = <<>>
    /\ terminal = ScenarioSize
    /\ ScreenRowsWith(output, "print_welcome") = {12}


\* --------------------------------------------------------------------- C14
\* C14: a failed read_key or a failed flush is fatal: the step that fails
\* ends with the screen cleared and run dead, it leaves cursor_position,
\* offset and should_quit (and the key last read) as they were, a failed
\* read_key issues nothing but the clear, and a dead run takes no further
\* step: no key is read and no frame is rendered after the failure.
C14_IoFailureIsFatal ==
    [][ /\ pc' = "died" =>
            /\ Len(output') >= 1
            /\ output'[Len(output')] = clear_screen
            /\ UNCHANGED <<cursor_position, offset, should_quit,
                           pressed_key, document>>
        /\ (pc = "process_keypress" /\ pc' = "died")
            => output' = <<clear_screen>>
        /\ pc # "died" ]_vars

\* read_key has failed after keys had moved the cursor and scrolled
C14_Witness ==
    /\ pc = "died"
    /\ output = <<clear_screen>>
    /\ pressed_key \in NavigationKeys
    /\ cursor_position # Position(0, 0)
    /\ offset # Position(0, 0)


\* --------------------------------------------------------------------- C15
\* C15 (as claimed): when the cursor row satisfies 0 < y <= terminal
\* height, PageUp is a no-op that leaves cursor.y unchanged.
C15_Original ==
    [][ ( /\ KeyStep
          /\ pressed_key' = "PageUp"
          /\ 0 < cursor_position.y
          /\ cursor_position.y <= terminal'.height )
        => cursor_position'.y = cursor_position.y ]_vars

\* C15 (amended): when the cursor row satisfies 0 < y <= terminal height,
\* PageUp moves the cursor to row 0.
C15_PageUpReachesTop ==
    [][ ( /\ KeyStep
          /\ pressed_key' = "PageUp"
          /\ 0 < cursor_position.y
          /\ cursor_position.y <= terminal'.height )
        => cursor_position'.y = 0 ]_vars

\* PageUp has been pressed with a terminal height that covers every row
\* below the first, and the cursor is on row 0
C15_Witness ==
    /\ KeyProcessed
    /\ pressed_key = "PageUp"
    /\ Len(document) = MaxRows
    /\ terminal.height >= last_row(document)
    /\ cursor_position.y = 0


\* --------------------------------------------------------------------- C16
\* a RUNNING frame `out` shows cursor `cur` through offset `off`: it is one
\* complete frame (one flush, at its end), the document row drawn on screen
\* row k is row off.y + k, and the terminal cursor is left at cur - off
FrameShows(out, cur, off) ==
    /\ Len(out) >= 3
    /\ OpsNamed(out, "flush") = {Len(out)}
    /\ \A i \in OpsNamed(out, "print_row_text") :
           out[i].a = off.y + ScreenRowOf(out, i)
    /\ out[Len(out) - 2] =
           cursor_goto(Position(saturating_sub(cur.x, off.x),
                                saturating_sub(cur.y, off.y)))

\* C16: run starts with a frame, before any key is read; a key is read only
\* right after a frame, which is still the last output when the key is
\* read, and exactly one complete frame lies between two key reads; that
\* frame shows the cursor and offset left by all keys read so far, which it
\* does not change; and every key event, whether or not it moves the
\* cursor, ends with scroll applied to the cursor that the navigation step
\* produced, before the next frame.
C16_LoopOrder ==
    /\ (pc = "refresh_screen" /\ pressed_key = "none" /\ output = <<>>)
    /\ [][ /\ pc' = "process_keypress" => pc = "refresh_screen"
           /\ pc = "process_keypress" => pc' \in {"refresh_screen", "died"}
           /\ KeyStep =>
                /\ output # <<>>
                /\ output[Len(output)] = flush
                /\ offset' = scroll(cursor_position', offset, terminal')
                /\ pressed_key' \notin NavigationKeys
                    => cursor_position' = cursor_position
                /\ output' = <<>>
           /\ (pc = "refresh_screen" /\ pc' = "process_keypress")
                => /\ FrameShows(output', cursor_position, offset)
                   /\ UNCHANGED <<cursor_position, offset, pressed_key>>
         ]_vars

\* the frame after a key that moved the cursor into a viewport scrolled on
\* both axes
C16_Witness ==
    /\ pc = "process_keypress"
    /\ pressed_key \in NavigationKeys
    /\ offset.x > 0 /\ offset.y > 0
    /\ cursor_position.x > offset.x
    /\ FrameShows(output, cursor_position, offset)


\* --------------------------------------------------------------------- C17
\* C17: for Up, Down, PageUp and PageDown the new column is
\* x' = min(x, length(row(y'))) with y' the new row: a vertical move never
\* increases x and reduces it exactly when the target row is shorter than x.
C17_VerticalMovesClampColumn ==
    [][ ( /\ KeyStep
          /\ pressed_key' \in {"Up", "Down", "PageUp", "PageDown"} )
        => LET x == cursor_position.x
               target == row_len_or_0(document, cursor_position'.y)
           IN  /\ cursor_position'.x = Min(x, target)
               /\ cursor_position'.x <= x
               /\ cursor_position'.x < x <=> target < x ]_vars

\* Down has moved the cursor from the first row, of MaxRowLen characters,
\* to the empty second row of a three-row document
C17_Witness ==
    /\ KeyProcessed
    /\ pressed_key = "Down"
    /\ document = <<MaxRowLen, 0, MaxRowLen>>
    /\ cursor_position = Position(0, 1)


\* ------------------------------------------------- columns that a frame prints
\* the number of screen columns one terminal operation fills
PrintedColumns(o) ==
    CASE o.op = "print_row_text" -> o.c - o.b
      [] o.op = "print_spaces" -> o.a
      [] o.op = "print_bars" -> o.a
      [] o.op = "print_tilde" -> 1
      [] o.op = "print_welcome" -> o.b
      [] OTHER -> 0

\* the columns filled by operations from..to of `out`
RECURSIVE ColumnsBetween(_, _, _)
ColumnsBetween(out, from, to) ==
    IF from > to THEN 0
    ELSE PrintedColumns(out[from]) + ColumnsBetween(out, from + 1, to)

\* the first operation named `name` after operation i
NextNamed(out, i, name) ==
    CHOOSE j \in OpsNamed(out, name) :
        j > i /\ \A k \in OpsNamed(out, name) : k > i => j <= k

\* the operations that switch to the paper background
PaperStarts(out) ==
    {i \in OpsNamed(out, "set_bg_color") : out[i].a = PAPER_BG_COLOR}

\* the screen rows of the frame that show a document row
DocumentScreenRows(doc, off, size) ==
    {k \in 0..(size.height - 1) : row_is_some(doc, k + off.y)}

\* --------------------------------------------------------------------- C18
\* C18 (SpecDraw): when offset.x < PAPER_WIDTH every drawn document row has
\* one stretch under the paper background, made of the row's characters of
\* columns [offset.x, PAPER_WIDTH) that exist and of padding spaces, and
\* that stretch is exactly PAPER_WIDTH - offset.x columns wide whatever the
\* row's length; when offset.x >= PAPER_WIDTH nothing is printed under the
\* paper background.
C18_PaperBandWidth ==
    pc = "drawn" =>
        IF offset.x < PAPER_WIDTH
        THEN /\ {ScreenRowOf(output, i) : i \in PaperStarts(output)}
                    = DocumentScreenRows(document, offset, terminal)
             /\ Cardinality(PaperStarts(output))
                    = Cardinality(DocumentScreenRows(document, offset, terminal))
             /\ \A i \in PaperStarts(output) :
                    LET len == document[output[i + 1].a + 1]
                    IN  /\ output[i + 1].op = "print_row_text"
                        /\ output[i + 1].c - output[i + 1].b
                               = Max(Min(len, PAPER_WIDTH) - offset.x, 0)
                        /\ ColumnsBetween(output, i,
                                          NextNamed(output, i, "reset_bg_color"))
                               = PAPER_WIDTH - offset.x
        ELSE PaperStarts(output) = {}

\* a frame with offset.x = 1 that draws a row longer than the paper band
\* and, below it, an empty row, which ends left of the viewport
C18_Witness ==
    /\ pc = "drawn"
    /\ document = <<PAPER_WIDTH + 1, 0>>
    /\ offset = Position(1, 0)
    /\ terminal = Size(2, 2)
    /\ Cardinality(PaperStarts(output)) = 2


\* --------------------------------------------------------------------- C19
\* C19: in a RUNNING frame every document row is drawn from its visible
\* slice only: the row characters printed come from document columns
\* [offset.x, offset.x + width), and the columns printed for the line, row
\* characters and padding together, are at most the terminal width.
C19_VisibleSliceOnly ==
    pc = "process_keypress" =>
        /\ \A i \in OpsNamed(output, "print_row_text") :
               output[i].c > output[i].b
                   => /\ output[i].b >= offset.x
                      /\ output[i].c <= offset.x + terminal.width
        /\ \A i \in OpsNamed(output, "clear_current_line") :
               ScreenRowOf(output, i)
                       \in DocumentScreenRows(document, offset, terminal)
                   => ColumnsBetween(output, i,
                                     NextNamed(output, i, "print_newline"))
                          <= terminal.width


\* --------------------------------------------------------------------- C20
\* the operations that switch to the status background
StatusStarts(out) ==
    {i \in OpsNamed(out, "set_bg_color") : out[i].a = STATUS_BG_COLOR}

\* C20: in every RUNNING frame the status bar is drawn once, after all
\* screen rows, under the status background color, and consists of exactly
\* terminal-width characters, all of them blank (space) characters.
C20_StatusBarBlank ==
    pc = "process_keypress" =>
        /\ Cardinality(StatusStarts(output)) = 1
        /\ \A i \in StatusStarts(output) :
               /\ \A j \in OpsNamed(output, "clear_current_line")
                           \cup OpsNamed(output, "print_newline") : j < i
               /\ output[i + 1] = print_spaces(terminal.width)
               /\ output[i + 2] = reset_bg_color

====
